---- MODULE Spec2Model ----
(***************************************************************************)
(* The asynchronous convergence subsystem of src/shell.rs: the resize      *)
(* negotiator (State::try_nvim_resize, ResizeRequests, ResizeState) and    *)
(* the focus negotiator (State::focus_update, FocusState), together with   *)
(* the session life cycle they depend on (init_nvim, grid_resize, detach). *)
(***************************************************************************)
EXTENDS Integers, Sequences, FiniteSets, TLC

\* ------------------------------------------------------------------ bounds
\* number of try_nvim_resize calls that reach calc_nvim_size
MaxResizeCalls == 3
\* number of focus_update calls
MaxFocusCalls == 3

\* number of 'resized' notifications the peer sends on its own
MaxStray == 1

\* cell metrics of the font (font_ctx.cell_metrics()), in pixels
CharWidth == 8
LineHeight == 16

\* Option<T>: None is the empty tuple, Some(v) is <<v>>
None == <<>>
Some(v) == <<v>>

\* a size computed without the clamp
NoClamp(a, b) == a

\* i64::max
Max(a, b) == IF a >= b THEN a ELSE b

\* f64 division followed by trunc() and the cast to i64, for the
\* non-negative pixel sizes gtk hands out
TruncDiv(a, b) == a \div b

\* a drawing-area allocation showing c columns and r rows and a partial cell
AllocFor(c, r) == <<c * CharWidth + 3, r * LineHeight + 5>>

\* the drawing-area allocations the window goes through
Allocs ==
    { <<1, 1>>, AllocFor(81, 25), AllocFor(82, 25), AllocFor(83, 26) }

\* allocations at and below the smallest grid: nothing at all, less than a
\* cell, just short of one column and three rows, and two columns by four
\* rows with either side at zero
EdgeAllocs ==
    { <<0, 0>>, <<1, 1>>, <<CharWidth - 1, 3 * LineHeight - 1>>,
      <<2 * CharWidth, 4 * LineHeight>>, <<0, 4 * LineHeight>>, <<2 * CharWidth, 0>> }

\* three resize events in quick succession
RapidResizes == << <<81, 25>>, <<82, 25>>, <<83, 26>> >>

\* the allocation of the drawing area before gtk has allocated it
InitialAlloc == <<1, 1>>

calc_nvim_size(al) ==
    << Max(TruncDiv(al[1], CharWidth), 1), Max(TruncDiv(al[2], LineHeight), 3) >>

VARIABLES
    client,       \* NeovimClient state: Uninitialized, InitInProgress, Initialized, Error
    session,      \* self.nvim() is Some
    initThreads,  \* number of init_nvim_async threads spawned
    initPc,       \* where the init_nvim_async thread is
    initSize,     \* the (cols, rows) handed to init_nvim_async
    alloc,        \* drawing_area.allocation()
    current,      \* ResizeRequests.current
    requested,    \* ResizeRequests.requested
    active,       \* ResizeRequests.active
    rworkers,     \* the resize futures spawned: id -> [pc, n, size, guard]
    permit,       \* autocmd_status (tokio Notify): the stored permit
    waiters,      \* autocmd_status: the futures enqueued in notified()
    remote,       \* the nvim peer: [attached, size, hooks]
    acks,         \* 'resized' rpc notifications sent by the peer, not yet handled
    last,         \* FocusState.last
    next,         \* FocusState.next
    is_pending,   \* FocusState.is_pending
    fworkers,     \* the focus futures spawned: id -> [pc, guard]
    hist,         \* history: what was called and what was sent
    todo          \* what the window still does: [resize, focus, allocs]

vars ==
    << client, session, initThreads, initPc, initSize, alloc, current, requested,
       active, rworkers, permit, waiters, remote, acks, last, next, is_pending,
       fworkers, hist, todo >>

\* ------------------------------------------------------------- helpers
\* the id given to a newly spawned future: the smallest one not in use
NewId(ws) == CHOOSE i \in 1..(Cardinality(DOMAIN ws) + 1) : i \notin DOMAIN ws

\* the task table without the task that returned
Drop(ws, w) == [i \in (DOMAIN ws) \ {w} |-> ws[i]]

\* a future that keeps the MutexGuard of its stream over the await
GuardAtAwaitHeld == TRUE

\* whether a future holds the MutexGuard of its stream once it has left the
\* block that took it: the guard is dropped at the end of the block
GuardAtAwait == FALSE

\* resize_status.requests can be locked: no future holds its guard
ResizeLockFree == \A w \in DOMAIN rworkers : ~rworkers[w].guard

\* focus_state can be locked: no future holds its guard
FocusLockFree == \A w \in DOMAIN fworkers : ~fworkers[w].guard

\* --------------------------------------------------------- construction
\* State::new: ResizeRequests, Notify::new(), FocusState; the client is
\* uninitialized and no session exists
InitState ==
    /\ client = "Uninitialized"
    /\ session = FALSE
    /\ initThreads = 0
    /\ initPc = "idle"
    /\ initSize = None
    /\ alloc = InitialAlloc
    /\ current = None
    /\ requested = None
    /\ active = FALSE
    /\ rworkers = <<>>
    /\ permit = None
    /\ waiters = <<>>
    /\ remote = [attached |-> FALSE, size |-> None, hooks |-> <<>>]
    /\ acks = <<>>
    /\ last = TRUE
    /\ next = TRUE
    /\ is_pending = FALSE
    /\ fworkers = <<>>

\* the history kept beside the state
\*   ncalls    the number of try_nvim_resize calls that computed a size
\*   lastCall  the size the latest of them computed
\*   rapid     how many of the sizes of RapidResizes the calls so far have
\*             gone through, in order and with no other call (-1: they differ)
\*   commits   call_atomic batches issued by the resize future
\*   reqId     the call that wrote the value now in requested (0: none)
\*   dropped   the calls whose value was overwritten or cancelled in requested
\*   writes    the number of try_nvim_resize calls that changed requested
\*   signals   the number of notify_finished calls
\*   quiet     no notify_finished call had been made when the latest call came
\*   spawnCall the call that spawned the latest resize future
\*   base      current when that future was spawned
\*   first     Len(commits) when that future was spawned
\*   osc       whether the call right after spawnCall asked for base again:
\*             "early" while the spawning request was still in requested,
\*             "late" once it was taken and its call_atomic had not returned
\*   fcalls    focus_update calls
\*   fsent     focus commands issued by the focus future
\*   runStart  Len(fsent) when the current run of equal focus_update calls began
\*   runLen    the length of that run
\*   ffailed   the latest focus command that failed, as an index of fsent (0: none)
\*   fretry    a focus_update call has asked again for the state of that command
\*   retry     the commit whose size a try_nvim_resize call has computed again
\*             after its call_atomic had failed without the peer running it
\*             (0: none)
InitHist ==
    hist = [ ncalls |-> 0, lastCall |-> None, rapid |-> 0, commits |-> <<>>, reqId |-> 0, dropped |-> {},
             signals |-> 0, quiet |-> TRUE, spawnCall |-> 0, base |-> None,
             first |-> 0, osc |-> "no", fcalls |-> <<>>, fsent |-> <<>>,
             runStart |-> 0, runLen |-> 0, ffailed |-> 0, fretry |-> FALSE,
             retry |-> 0, writes |-> 0 ]

\* the window makes nr calls of try_nvim_resize that compute a size, over the
\* allocations als, and nf calls of focus_update
InitTodo(nr, als, nf) ==
    todo = [resize |-> nr, allocs |-> als, focus |-> nf]

\* ------------------------------------------------------ the resize stream
\* a try_nvim_resize that spawns whether or not a future is active
SpawnNeverBlocked(act) == FALSE

\* try_nvim_resize: "Don't spawn a resize future if one's already active"
SpawnBlocked(act) == act

\* a try_nvim_resize that returns without cancelling the pending request
CancelledRequestKept(req) == req

\* try_nvim_resize: what the request matching the last committed size
\* leaves in requested ("cancelling reqs")
CancelledRequest(req) == None

\* a try_nvim_resize that spawns the future and leaves active unset
ActiveOnSpawnUnset == FALSE

\* try_nvim_resize: status.active once the call has decided to spawn
ActiveOnSpawn == TRUE

\* a try_nvim_resize that does not compare the size with current
MatchesCurrentNever(cur, req) == FALSE

\* try_nvim_resize: "Resize request matches last committed size"
MatchesCurrent(cur, req) == cur = Some(req)

\* a try_nvim_resize that goes on without a session
NvimNeverNone(s) == FALSE

\* try_nvim_resize: self.nvim() is None, the call returns
NvimIsNone(s) == ~s

\* a try_nvim_resize that goes on before the UI is attached
UnseededIgnored(cur) == FALSE

\* try_nvim_resize: "Abort if the UI isn't attached yet"
Unseeded(cur) == cur = None

\* the history after a try_nvim_resize call that computed our_req
Called(our_req) ==
    [hist EXCEPT
        !.ncalls = @ + 1,
        !.lastCall = Some(our_req),
        !.rapid = IF @ >= 0 /\ @ < Len(RapidResizes) /\ RapidResizes[@ + 1] = our_req
                  THEN @ + 1 ELSE -1,
        !.quiet = (hist.signals = 0),
        !.retry = IF /\ hist.commits # <<>>
                     /\ hist.commits[Len(hist.commits)].status = "err"
                     /\ ~hist.commits[Len(hist.commits)].ran
                     /\ hist.commits[Len(hist.commits)].size = our_req
                  THEN Len(hist.commits) ELSE @,
        !.osc = IF active /\ hist.ncalls = hist.spawnCall
                   /\ hist.base = Some(our_req)
                THEN IF Len(hist.commits) = hist.first THEN "early"
                     ELSE IF /\ Len(hist.commits) = hist.first + 1
                             /\ hist.commits[hist.first + 1].status = "sent"
                     THEN "late" ELSE "no"
                ELSE @]

\* a try_nvim_resize that never finds its size in requested
MatchesRequestedNever(req, our_req) == FALSE

\* try_nvim_resize: the size computed is the one requested holds already
MatchesRequested(req, our_req) == req = Some(our_req)

\* State::try_nvim_resize up to the spawn, for the allocation al; a call
\* that computes a size uses up cost of the calls the window still makes
try_nvim_resize(al, cost) ==
    IF NvimIsNone(session)
    THEN UNCHANGED << current, requested, active, rworkers, hist, todo >>
    ELSE IF ~ResizeLockFree
    THEN FALSE
    ELSE IF Unseeded(current)
    THEN UNCHANGED << current, requested, active, rworkers, hist, todo >>
    ELSE LET our_req == calc_nvim_size(al)
             id == hist.ncalls + 1
             drop == IF requested # None THEN {hist.reqId} ELSE {}
             called == Called(our_req)
         IN  /\ todo' = [todo EXCEPT !.resize = @ - cost]
             /\ IF MatchesRequested(requested, our_req)
                 THEN /\ hist' = called
                      /\ UNCHANGED << current, requested, active, rworkers >>
                 ELSE IF MatchesCurrent(current, our_req)
                 THEN /\ requested' = CancelledRequest(requested)
                      /\ hist' = [called EXCEPT !.reqId = IF requested' = None THEN 0 ELSE @,
                                                !.dropped = @ \cup drop,
                                                !.writes = IF requested' # requested
                                                           THEN @ + 1 ELSE @]
                      /\ UNCHANGED << current, active, rworkers >>
                 ELSE /\ requested' = Some(our_req)
                      /\ IF SpawnBlocked(active)
                         THEN /\ hist' = [called EXCEPT !.reqId = id,
                                                        !.dropped = @ \cup drop,
                                                        !.writes = @ + 1]
                              /\ UNCHANGED << active, rworkers >>
                         ELSE /\ active' = ActiveOnSpawn
                              /\ rworkers' =
                                     rworkers @@ (NewId(rworkers) :>
                                                    [pc |-> "top", n |-> 0, size |-> <<>>,
                                                     guard |-> FALSE])
                              /\ hist' = [called EXCEPT !.reqId = id,
                                                        !.dropped = @ \cup drop,
                                                        !.writes = @ + 1,
                                                        !.spawnCall = id,
                                                        !.base = current,
                                                        !.first = Len(hist.commits),
                                                        !.osc = "no"]
                      /\ UNCHANGED current

\* the drawing area's configure-event handler, for the new allocation a
ConfigureEvent(a) ==
    /\ todo.resize > 0 /\ a \in todo.allocs
    /\ alloc' = a
    /\ try_nvim_resize(a, 1)
    /\ UNCHANGED << client, session, initThreads, initPc, initSize, permit, waiters,
                    remote, acks, last, next, is_pending, fworkers >>

\* a resize future that takes the request and leaves current as it was
CurrentOnTakeStale(cur, req) == cur

\* the resize future, top of the loop: what becomes of current when the
\* request req is taken
CurrentOnTake(cur, req) == req

\* a resize future that reads requested without taking it
RequestedOnTakeKept(req) == req

\* the resize future, top of the loop: what status.requested.take() leaves
\* in requested
RequestedOnTake(req) == None

\* the resize future, top of the loop: take requested under the lock
ResizeTake(w) ==
    /\ w \in DOMAIN rworkers /\ rworkers[w].pc = "top"
    /\ ResizeLockFree
    /\ IF requested # None
       THEN /\ current' = CurrentOnTake(current, requested)
            /\ requested' = RequestedOnTake(requested)
            /\ hist' = [hist EXCEPT
                   !.commits = Append(@, [ size |-> requested[1], req |-> hist.reqId,
                                           status |-> "sent", ran |-> FALSE,
                                           signals |-> 0,
                                           wokeBy |-> 0 ]),
                   !.reqId = 0]
            /\ rworkers' = [rworkers EXCEPT ![w] =
                               [pc |-> "call", n |-> Len(hist.commits) + 1,
                                size |-> requested[1], guard |-> GuardAtAwait]]
            /\ UNCHANGED active
       ELSE /\ active' = FALSE
            /\ rworkers' = Drop(rworkers, w)
            /\ UNCHANGED << current, requested, hist >>
    /\ UNCHANGED << client, session, initThreads, initPc, initSize, alloc, permit,
                    waiters, remote, acks, last, next, is_pending, fworkers, todo >>

\* a hook registered without ++once stays registered
HooksAfterFiringKept(hooks) == hooks

\* "au VimResized * ++once ...": the hooks left registered once VimResized
\* has fired them
HooksAfterFiring(hooks) == <<>>

\* the peer runs the batch of commit n. nvim_command registers the hook;
\* nvim_ui_try_resize resizes, and a change of size fires VimResized, so
\* every registered hook sends 'resized'
RunBatch(n, size) ==
    LET hooks == Append(remote.hooks, n)
        fires == remote.size # Some(size)
    IN  /\ remote' = [remote EXCEPT !.size = Some(size),
                                    !.hooks = IF fires THEN HooksAfterFiring(hooks)
                                              ELSE hooks]
        /\ acks' = IF fires THEN acks \o hooks ELSE acks

\* call_atomic: the peer runs the batch and the call returns its results
CallAtomicOk(w) ==
    /\ w \in DOMAIN rworkers /\ rworkers[w].pc = "call"
    /\ session /\ remote.attached
    /\ RunBatch(rworkers[w].n, rworkers[w].size)
    /\ hist' = [hist EXCEPT !.commits[rworkers[w].n].status = "ok",
                            !.commits[rworkers[w].n].ran = TRUE]
    /\ rworkers' = [rworkers EXCEPT ![w].pc = "notified"]
    /\ UNCHANGED << client, session, initThreads, initPc, initSize, alloc, current,
                    requested, active, permit, waiters, last, next, is_pending,
                    fworkers, todo >>

\* a resize future that goes back to the top of the loop when call_atomic
\* has failed
AfterCallErrorLoop == "top"

\* what the resize future does once call_atomic has failed and report_err
\* has reported it
AfterCallError == "notified"

\* call_atomic: the peer runs the batch and the call fails all the same (the
\* reply is lost or comes too late)
CallAtomicLost(w) ==
    /\ w \in DOMAIN rworkers /\ rworkers[w].pc = "call"
    /\ session /\ remote.attached
    /\ RunBatch(rworkers[w].n, rworkers[w].size)
    /\ hist' = [hist EXCEPT !.commits[rworkers[w].n].status = "err",
                            !.commits[rworkers[w].n].ran = TRUE]
    /\ rworkers' = [rworkers EXCEPT ![w].pc = AfterCallError]
    /\ UNCHANGED << client, session, initThreads, initPc, initSize, alloc, current,
                    requested, active, permit, waiters, last, next, is_pending,
                    fworkers, todo >>

\* call_atomic fails and the peer has not run the batch (a transport error,
\* or the session is gone)
CallAtomicErr(w) ==
    /\ w \in DOMAIN rworkers /\ rworkers[w].pc = "call"
    /\ hist' = [hist EXCEPT !.commits[rworkers[w].n].status = "err"]
    /\ rworkers' = [rworkers EXCEPT ![w].pc = AfterCallError]
    /\ UNCHANGED << client, session, initThreads, initPc, initSize, alloc, current,
                    requested, active, permit, waiters, remote, acks, last, next,
                    is_pending, fworkers, todo >>

\* a resize future that does not wait for the notification
NotifiedNoWait(w) ==
    /\ w \in DOMAIN rworkers /\ rworkers[w].pc = "notified"
    /\ rworkers' = [rworkers EXCEPT ![w].pc = "top"]
    /\ UNCHANGED << client, session, initThreads, initPc, initSize, alloc, current,
                    requested, active, permit, waiters, remote, acks, last, next,
                    is_pending, fworkers, hist, todo >>

\* Notify::notified(), first poll: a stored permit is consumed, else the
\* future enqueues itself
Notified(w) ==
    /\ w \in DOMAIN rworkers /\ rworkers[w].pc = "notified"
    /\ IF permit # None
       THEN /\ permit' = None
            /\ rworkers' = [rworkers EXCEPT ![w].pc = "top"]
            /\ hist' = [hist EXCEPT !.commits[rworkers[w].n].wokeBy = permit[1]]
            /\ UNCHANGED waiters
       ELSE /\ waiters' = Append(waiters, w)
            /\ rworkers' = [rworkers EXCEPT ![w].pc = "waiting"]
            /\ UNCHANGED << permit, hist >>
    /\ UNCHANGED << client, session, initThreads, initPc, initSize, alloc, current,
                    requested, active, remote, acks, last, next, is_pending,
                    fworkers, todo >>

\* a notify_one that takes the waiter off the list and does not wake it
AfterWakeAsleep == "waiting"

\* Notify::notify_one(): the future it wakes returns from notified().await
\* and goes to the next iteration of the loop
AfterWake == "top"

\* a notify_one that stores nothing when no future is waiting
PermitDropped(tag) == None

\* Notify::notify_one() with no future waiting: the permit it stores
PermitOnNotify(tag) == Some(tag)

\* ResizeState::notify_finished: Notify::notify_one() wakes the first waiter
\* or, with none waiting, stores the permit. tag names the commit whose hook
\* sent the notification
notify_finished(tag) ==
    LET signalled ==
            [hist EXCEPT !.signals = @ + 1,
                         !.commits = IF tag \in DOMAIN @
                                     THEN [@ EXCEPT ![tag].signals = @ + 1] ELSE @]
    IN  IF waiters # <<>>
        THEN /\ rworkers' = [rworkers EXCEPT ![Head(waiters)].pc = AfterWake]
             /\ waiters' = Tail(waiters)
             /\ hist' = [signalled EXCEPT
                             !.commits[rworkers[Head(waiters)].n].wokeBy = tag]
             /\ UNCHANGED permit
        ELSE /\ permit' = PermitOnNotify(tag)
             /\ hist' = signalled
             /\ UNCHANGED << rworkers, waiters >>

\* the handler of the peer's 'resized' notification
OnResized ==
    /\ acks # <<>>
    /\ acks' = Tail(acks)
    /\ notify_finished(Head(acks))
    /\ UNCHANGED << client, session, initThreads, initPc, initSize, alloc, current,
                    requested, active, remote, last, next, is_pending, fworkers, todo >>

\* the tag of a 'resized' notification that no hook of a commit has sent
Stray == 0 - 1

\* the peer sends 'resized' on its own: rpcnotify(1, 'resized') run by
\* anything but the hook of a commit
ExternalResized ==
    /\ session /\ remote.attached
    /\ todo.stray > 0
    /\ todo' = [todo EXCEPT !.stray = @ - 1]
    /\ acks' = Append(acks, Stray)
    /\ UNCHANGED << client, session, initThreads, initPc, initSize, alloc, current,
                    requested, active, rworkers, permit, waiters, remote, last, next,
                    is_pending, fworkers, hist >>

\* ------------------------------------------------------ session life cycle
\* a start_nvim_initialization that returns true whatever the client's state
StartAlways == TRUE

\* State::start_nvim_initialization
start_nvim_initialization == client = "Uninitialized"

\* init_nvim, run by the drawing area's size-allocate handler
init_nvim ==
    /\ IF start_nvim_initialization
       THEN /\ client' = "InitInProgress"
            /\ initSize' = Some(calc_nvim_size(alloc))
            /\ initThreads' = initThreads + 1
            /\ initPc' = "start"
       ELSE UNCHANGED << client, initSize, initThreads, initPc >>
    /\ UNCHANGED << session, alloc, current, requested, active, rworkers, permit,
                    waiters, remote, acks, last, next, is_pending, fworkers, hist, todo >>

\* init_nvim_async: nvim::start succeeded and set_nvim_to_state stored the session
NvimStartOk ==
    /\ initPc = "start"
    /\ session' = TRUE
    /\ initPc' = "post_start"
    /\ UNCHANGED << client, initThreads, initSize, alloc, current, requested, active,
                    rworkers, permit, waiters, remote, acks, last, next, is_pending,
                    fworkers, hist, todo >>

\* init_nvim_async: nvim::start failed, show_nvim_start_error
NvimStartErr ==
    /\ initPc = "start"
    /\ client' = "Error"
    /\ initPc' = "done"
    /\ UNCHANGED << session, initThreads, initSize, alloc, current, requested, active,
                    rworkers, permit, waiters, remote, acks, last, next, is_pending,
                    fworkers, hist, todo >>

\* post_start_init: the peer attaches the ui with the size init_nvim computed
PostStartInitOk ==
    /\ initPc = "post_start" /\ session
    /\ remote' = [remote EXCEPT !.attached = TRUE, !.size = initSize]
    /\ initPc' = "set_initialized"
    /\ UNCHANGED << client, session, initThreads, initSize, alloc, current, requested,
                    active, rworkers, permit, waiters, acks, last, next, is_pending,
                    fworkers, hist, todo >>

\* post_start_init failed, show_nvim_init_error
PostStartInitErr ==
    /\ initPc = "post_start"
    /\ client' = "Error"
    /\ initPc' = "done"
    /\ UNCHANGED << session, initThreads, initSize, alloc, current, requested, active,
                    rworkers, permit, waiters, remote, acks, last, next, is_pending,
                    fworkers, hist, todo >>

\* set_nvim_initialized: "in some case resize can happens while
\* initilization in progress so force resize here"
SetNvimInitialized ==
    /\ initPc = "set_initialized"
    /\ client' = "Initialized"
    /\ initPc' = "done"
    /\ try_nvim_resize(alloc, 0)
    /\ UNCHANGED << session, initThreads, initSize, alloc, permit, waiters, remote,
                    acks, last, next, is_pending, fworkers >>

\* the end of the session: NeovimClient::clear() in the io_future callback
\* or in detach_ui
Detach ==
    /\ session
    /\ session' = FALSE
    /\ remote' = [remote EXCEPT !.attached = FALSE]
    /\ UNCHANGED << client, initThreads, initPc, initSize, alloc, current, requested,
                    active, rworkers, permit, waiters, acks, last, next, is_pending,
                    fworkers, hist, todo >>

\* a grid_resize that stores the size of every event
SeedAlways(cur, size) == Some(size)

\* a grid_resize that stores nothing
SeedNever(cur, size) == cur

\* grid_resize: current is set if it is none, and left alone otherwise
SeedOnce(cur, size) == IF cur = None THEN Some(size) ELSE cur

\* State::grid_resize
grid_resize(columns, rows) ==
    /\ current' = SeedOnce(current, <<columns, rows>>)
    /\ UNCHANGED << client, session, initThreads, initPc, initSize, alloc, requested,
                    active, rworkers, permit, waiters, remote, acks, last, next,
                    is_pending, fworkers, hist, todo >>

\* a grid_resize redraw event of the attached peer, carrying its size
GridResize ==
    /\ session /\ remote.attached
    /\ grid_resize(remote.size[1][1], remote.size[1][2])

\* ------------------------------------------------------- the focus stream
\* a focus_update that also holds back while a resize future is active
FocusSpawnBlockedByResize(pending) == pending \/ active

\* focus_update: "A future is still running, no need for another"
FocusSpawnBlocked(pending) == pending

\* State::focus_update up to the spawn
focus_update(state) ==
    /\ todo.focus > 0
    /\ FocusLockFree
    /\ todo' = [todo EXCEPT !.focus = @ - 1]
    /\ LET same == hist.fcalls # <<>> /\ hist.fcalls[Len(hist.fcalls)] = state
       IN  hist' = [hist EXCEPT !.fcalls = Append(@, state),
                                !.runStart = IF same THEN @ ELSE Len(hist.fsent),
                                !.runLen = IF same THEN @ + 1 ELSE 1,
                                !.fretry = @ \/ /\ hist.ffailed > 0
                                                 /\ hist.fsent[hist.ffailed] = state]
    /\ IF next = state
       THEN UNCHANGED << next, is_pending, fworkers >>
       ELSE /\ next' = state
            /\ IF FocusSpawnBlocked(is_pending)
               THEN UNCHANGED << is_pending, fworkers >>
               ELSE IF session
               THEN /\ is_pending' = TRUE
                    /\ fworkers' = fworkers @@ (NewId(fworkers) :>
                                                   [pc |-> "top", guard |-> FALSE])
               ELSE UNCHANGED << is_pending, fworkers >>
    /\ UNCHANGED << client, session, initThreads, initPc, initSize, alloc, current,
                    requested, active, rworkers, permit, waiters, remote, acks, last >>

\* gtk_focus_in / gtk_focus_out
FocusEvent == \E state \in BOOLEAN : focus_update(state)

\* gtk_focus_in / gtk_focus_out while the session is there
FocusEventAttached == session /\ FocusEvent

\* a focus future that sends next and leaves last as it was
LastOnTakeStale(lst, nxt) == lst

\* the focus future: what becomes of last when next is sent
LastOnTake(lst, nxt) == nxt

\* a focus future that returns and leaves is_pending set
PendingOnExitStuck == TRUE

\* the focus future: is_pending once next equals last and the future returns
PendingOnExit == FALSE

\* the focus future, top of the loop: compare next with last under the lock
\* and issue the command
FocusTake(w) ==
    /\ w \in DOMAIN fworkers /\ fworkers[w].pc = "top"
    /\ FocusLockFree
    /\ IF next = last
       THEN /\ is_pending' = PendingOnExit
            /\ fworkers' = Drop(fworkers, w)
            /\ UNCHANGED << last, hist >>
       ELSE /\ last' = LastOnTake(last, next)
            /\ fworkers' = [fworkers EXCEPT ![w] =
                               [pc |-> "command", guard |-> GuardAtAwait]]
            /\ hist' = [hist EXCEPT !.fsent = Append(@, next), !.fretry = FALSE]
            /\ UNCHANGED is_pending
    /\ UNCHANGED << client, session, initThreads, initPc, initSize, alloc, current,
                    requested, active, rworkers, permit, waiters, remote, acks, next, todo >>

\* nvim.command(..).await returns, with success or with an error that
\* report_err reports
FocusCommandReturn(w) ==
    /\ w \in DOMAIN fworkers /\ fworkers[w].pc = "command"
    /\ fworkers' = [fworkers EXCEPT ![w].pc = "top"]
    /\ UNCHANGED << client, session, initThreads, initPc, initSize, alloc, current,
                    requested, active, rworkers, permit, waiters, remote, acks, last,
                    next, is_pending, hist, todo >>

\* a focus future that returns when the command has failed, and leaves
\* is_pending as it is
AfterCommandErrorAbort == "aborted"

\* what the focus future does once nvim.command has failed and report_err
\* has reported it: the next iteration of the loop
AfterCommandError == "top"

\* nvim.command(..).await returns an error, and the peer has not run the
\* autocmd
FocusCommandErr(w) ==
    /\ w \in DOMAIN fworkers /\ fworkers[w].pc = "command"
    /\ fworkers' = [fworkers EXCEPT ![w].pc = AfterCommandError]
    /\ hist' = [hist EXCEPT !.ffailed = Len(hist.fsent), !.fretry = FALSE]
    /\ UNCHANGED << client, session, initThreads, initPc, initSize, alloc, current,
                    requested, active, rworkers, permit, waiters, remote, acks, last,
                    next, is_pending, todo >>

\* ------------------------------------------------------- specifications
SizeAllocate == init_nvim
Configure == \E a \in Allocs : ConfigureEvent(a)
ResizeWorkerTake == \E w \in DOMAIN rworkers : ResizeTake(w)
ResizeCommitOk == \E w \in DOMAIN rworkers : CallAtomicOk(w)
ResizeCommitErr == \E w \in DOMAIN rworkers : CallAtomicErr(w)
ResizeCommitLost == \E w \in DOMAIN rworkers : CallAtomicLost(w)
ResizeWait == \E w \in DOMAIN rworkers : Notified(w)
ConfigureEdge == \E a \in EdgeAllocs : ConfigureEvent(a)
FocusWorkerTake == \E w \in DOMAIN fworkers : FocusTake(w)
FocusWorkerReturn == \E w \in DOMAIN fworkers : FocusCommandReturn(w)
FocusWorkerFail == \E w \in DOMAIN fworkers : FocusCommandErr(w)

\* the resize stream with a session that stays and commits that succeed
InitResize == InitState /\ InitHist /\ InitTodo(MaxResizeCalls, Allocs, 0)

NextResizeOk ==
    \/ SizeAllocate
    \/ NvimStartOk
    \/ PostStartInitOk
    \/ SetNvimInitialized
    \/ GridResize
    \/ Configure
    \/ ResizeWorkerTake
    \/ ResizeCommitOk
    \/ ResizeWait
    \/ OnResized

\* the resize stream with failing commits and a session that may end
NextResize ==
    \/ NextResizeOk
    \/ NvimStartErr
    \/ PostStartInitErr
    \/ Detach
    \/ ResizeCommitErr
    \/ ResizeCommitLost

SpecResize == InitResize /\ [][NextResize]_vars

ResizeFairness ==
    /\ WF_vars(NvimStartOk)
    /\ WF_vars(PostStartInitOk)
    /\ WF_vars(SetNvimInitialized)
    /\ WF_vars(ResizeWorkerTake)
    /\ WF_vars(ResizeCommitOk)
    /\ WF_vars(ResizeWait)
    /\ WF_vars(OnResized)

SpecResizeOk == InitResize /\ [][NextResizeOk]_vars /\ ResizeFairness

\* the resize stream with a peer that also sends 'resized' on its own; the
\* future and the handler of 'resized' get to run
InitUnblock ==
    /\ InitState
    /\ InitHist
    /\ todo = [ resize |-> MaxResizeCalls - 1,
                allocs |-> {AllocFor(81, 25), AllocFor(82, 25)},
                focus |-> 0, stray |-> MaxStray ]

NextUnblock ==
    \/ NextResize
    \/ ExternalResized

UnblockFairness ==
    /\ WF_vars(ResizeWorkerTake)
    /\ WF_vars(OnResized)

SpecUnblock == InitUnblock /\ [][NextUnblock]_vars /\ UnblockFairness

\* the resize stream for a window shrunk to the smallest sizes and to nothing
InitEdge == InitState /\ InitHist /\ InitTodo(MaxResizeCalls - 1, EdgeAllocs, 0)

NextEdge ==
    \/ NextResizeOk
    \/ ConfigureEdge

SpecEdge == InitEdge /\ [][NextEdge]_vars

\* the focus stream
InitFocus == InitState /\ InitHist /\ InitTodo(0, {}, MaxFocusCalls)

NextFocusOk ==
    \/ SizeAllocate
    \/ NvimStartOk
    \/ PostStartInitOk
    \/ SetNvimInitialized
    \/ GridResize
    \/ FocusEventAttached
    \/ FocusWorkerTake
    \/ FocusWorkerReturn

NextFocus ==
    \/ NextFocusOk
    \/ FocusEvent
    \/ NvimStartErr
    \/ PostStartInitErr
    \/ Detach
    \/ FocusWorkerFail

SpecFocus == InitFocus /\ [][NextFocus]_vars

FocusFairness ==
    /\ WF_vars(FocusWorkerTake)
    /\ WF_vars(FocusWorkerReturn)

SpecFocusOk == InitFocus /\ [][NextFocusOk]_vars /\ FocusFairness

\* the focus stream with commands that fail and a session that may end once
\* the calls are made; every command returns, one way or the other
NextFocusErr ==
    \/ NextFocusOk
    \/ Detach
    \/ FocusWorkerFail

SpecFocusErr == InitFocus /\ [][NextFocusErr]_vars /\ FocusFairness

\* both streams, for a window that goes back and forth between two sizes
Init ==
    /\ InitState
    /\ InitHist
    /\ InitTodo(MaxResizeCalls - 1, {AllocFor(81, 25), AllocFor(82, 25)},
                MaxFocusCalls - 1)

Next ==
    \/ NextResize
    \/ FocusEvent
    \/ FocusWorkerTake
    \/ FocusWorkerReturn
    \/ FocusWorkerFail

Spec == Init /\ [][Next]_vars

\* ----------------------------------------------------------------- claims
s81 == RapidResizes[1]
s82 == RapidResizes[2]
s83 == RapidResizes[3]

Commits == hist.commits
NCommits == Len(hist.commits)

\* the number of entries of the sequence s equal to x
Count(s, x) == Cardinality({i \in DOMAIN s : s[i] = x})

\* each stream has at most one future
AtMostOneWorker ==
    /\ Cardinality(DOMAIN rworkers) <= 1
    /\ Cardinality(DOMAIN fworkers) <= 1

\* a step that spawns a future finds the stream's flag false and sets it
SpawnUnderFlag ==
    /\ (DOMAIN rworkers' \ DOMAIN rworkers # {}) => (~active /\ active')
    /\ (DOMAIN fworkers' \ DOMAIN fworkers # {}) => (~is_pending /\ is_pending')

\* C1: on each stream (try_nvim_resize, focus_update), under every
\* interleaving of calls, future steps, commit completions and
\* acknowledgments, at most one future exists at any time, and a future is
\* spawned only by a call that finds active / is_pending false and sets it
C1_SingleWorker == []AtMostOneWorker /\ [][SpawnUnderFlag]_vars

\* C1 witness: a request arrived on each stream while its future was busy
C1_Witness ==
    /\ \E w \in DOMAIN rworkers : rworkers[w].pc = "waiting"
    /\ requested # None /\ active
    /\ \E w \in DOMAIN fworkers : fworkers[w].pc = "command"
    /\ next # last /\ is_pending

\* the resize stream is at rest on the size of the last call
ResizeConverged ==
    /\ ~active /\ rworkers = <<>>
    /\ requested = None
    /\ current = hist.lastCall
    /\ NCommits > 0 => Commits[NCommits].size = hist.lastCall[1]

\* C2: with a session that stays, a seeded current and commits that succeed
\* and are acknowledged, once the try_nvim_resize calls stop the stream
\* comes to rest with active false, requested empty and current the size of
\* the last call, and that size is the last one sent if any was sent
C2_ResizeConverges == <>[](hist.lastCall # None => ResizeConverged)

\* C2 witness: the stream came to rest after two calls and two commits
C2_Witness == hist.ncalls >= 2 /\ NCommits >= 2 /\ ResizeConverged

\* the focus stream is at rest on the state of the last call
FocusConverged ==
    LET vn == hist.fcalls[Len(hist.fcalls)]
    IN  /\ ~is_pending /\ fworkers = <<>>
        /\ last = vn /\ next = vn
        /\ IF hist.fsent # <<>> THEN hist.fsent[Len(hist.fsent)] = vn ELSE vn = TRUE

\* C3: with a session that stays, once the focus_update calls stop the focus
\* future returns with is_pending false and last = next = the last argument,
\* which is the last state sent, or true (the initial state) if none was sent
C3_FocusConverges == <>[](hist.fcalls # <<>> => FocusConverged)

\* C3 witness: the stream came to rest after two calls and two commands
C3_Witness == Len(hist.fcalls) >= 2 /\ Len(hist.fsent) >= 2 /\ FocusConverged

\* C4: a request overwritten in requested before the future took it is never
\* committed: every commit carries a request that was not overwritten, and
\* carries it once; requested holds one value, never a list
C4_Coalescing ==
    /\ requested = None \/ Len(requested) = 1
    /\ \A i \in DOMAIN Commits :
           /\ Commits[i].req > 0
           /\ Commits[i].req \notin hist.dropped
           /\ \A j \in DOMAIN Commits : i # j => Commits[i].req # Commits[j].req

\* C4 witness: a request was overwritten, and the request that overwrote it
\* is the only commit of its size
C4_Witness ==
    \E i \in DOMAIN Commits :
        /\ Commits[i].req - 1 \in hist.dropped
        /\ \A j \in DOMAIN Commits : j # i => Commits[j].size # Commits[i].size

\* the call right after the one that spawned the future asked for the size
\* current had at the spawn, and no call has come since
Oscillation(when) == hist.osc = when /\ hist.ncalls = hist.spawnCall + 1

\* C5 as stated: current = A, a call for B spawns the future, a call for A
\* comes before the commit of B has returned, be it before or after the
\* future took B: the pending value is cancelled and no second commit follows
C5_Original ==
    (Oscillation("early") \/ Oscillation("late"))
        => (requested = None /\ NCommits <= hist.first + 1)

\* C5 (amended): a call for A that comes while B is still in requested
\* cancels it, and the future commits nothing; a call for A that comes once
\* the future has taken B is queued, and A is the next commit after B
C5_OscillationSuppressed ==
    /\ Oscillation("early") =>
           /\ requested = None
           /\ NCommits = hist.first
           /\ current = hist.base
    /\ Oscillation("late") =>
           \/ requested = hist.base /\ NCommits = hist.first + 1
           \/ /\ requested = None
              /\ NCommits = hist.first + 2
              /\ Commits[NCommits].size = hist.base[1]

\* C5 witness: the request was cancelled and the future returned without a
\* commit
C5_Witness == Oscillation("early") /\ rworkers = <<>> /\ ~active

\* the focus commands for the state asked for that were sent since the
\* current run of equal focus_update calls began
RunCommits ==
    Cardinality({ i \in (hist.runStart + 1)..Len(hist.fsent) :
                    hist.fsent[i] = hist.fcalls[Len(hist.fcalls)] })

\* C6 as stated: with the session there, two focus_update calls in a row
\* with the same state send exactly one command for it
C6_Original == (hist.runLen >= 2 /\ ~is_pending) => RunCommits = 1

\* C6 (amended): with the session there, two focus_update calls in a row
\* with the same state send at most one command for it
C6_FocusIdempotent == hist.runLen >= 2 => RunCommits <= 1

\* C6 witness: two calls in a row sent one command
C6_Witness == hist.runLen >= 2 /\ ~is_pending /\ RunCommits = 1

\* calls for (81,25), (82,25), (83,26) and no other, the last made before
\* any notify_finished, with a seed that is none of the three
Rapid ==
    /\ hist.rapid = 3
    /\ hist.quiet
    /\ initSize[1] \notin {s81, s82, s83}

\* the commits for (81,25) or (82,25)
Intermediates == Cardinality({i \in DOMAIN Commits : Commits[i].size \in {s81, s82}})

\* the stream is at rest on (83,26), committed and acknowledged
Settled83 ==
    /\ ~active /\ rworkers = <<>>
    /\ requested = None
    /\ current = Some(s83)
    /\ NCommits > 0
    /\ Commits[NCommits] = [ size |-> s83, req |-> 3, status |-> "ok", ran |-> TRUE,
                             signals |-> 1, wokeBy |-> NCommits ]

\* C7: after calls for (81,25), (82,25), (83,26) made before any
\* acknowledgment, with a seed that is none of them, at most one commit is
\* for (81,25) or (82,25), and the stream comes to rest on (83,26),
\* committed and acknowledged
C7_RapidResizes ==
    /\ [](Rapid => Intermediates <= 1)
    /\ [](Rapid /\ ~active => Settled83)
    /\ (Rapid ~> (Settled83 \/ hist.rapid # 3))

\* C7 witness: at rest on (83,26) after one intermediate commit
C7_Witness == Rapid /\ Settled83 /\ Intermediates = 1

\* C8: at most one commit of a stream is outstanding, and a resize commit is
\* issued only once the one before has returned and its own acknowledgment
\* has gone through notify_finished
C8_StrictOrder ==
    /\ Cardinality({i \in DOMAIN Commits : Commits[i].status = "sent"}) <= 1
    /\ Cardinality({w \in DOMAIN rworkers : rworkers[w].pc # "top"}) <= 1
    /\ \A i \in DOMAIN Commits :
           i < NCommits =>
               /\ Commits[i].status # "sent"
               /\ Commits[i].signals >= 1
               /\ Commits[i].wokeBy = i
    /\ Cardinality({w \in DOMAIN fworkers : fworkers[w].pc = "command"}) <= 1

\* C8 witness: a second commit was issued on each stream
C8_Witness == NCommits >= 2 /\ Len(hist.fsent) >= 2

\* the notifications of commit n that are registered or under way
Underway(n) == Count(remote.hooks, n) + Count(acks, n)

\* every return of notified() after commit n comes from the hook of commit
\* n, and a stored permit is the one of the commit the future is waiting on
Attributed ==
    /\ \A n \in DOMAIN Commits :
           /\ Commits[n].wokeBy \in {0, n}
           /\ Commits[n].wokeBy = n => Commits[n].signals = 1
    /\ permit # None =>
           \E w \in DOMAIN rworkers :
               rworkers[w].n = permit[1] /\ rworkers[w].pc = "notified"

Stalled(w) ==
    /\ rworkers[w].pc = "waiting"
    /\ Commits[rworkers[w].n].status = "err" /\ ~Commits[rworkers[w].n].ran
    /\ acks = <<>> /\ permit = None /\ remote.hooks = <<>>

\* C10: when call_atomic fails the resize future is not stalled: it goes on
\* to the next iteration and re-checks requested, so a size requested
\* afterwards does not stay in requested behind a wait nothing will end
C10_FailedCommitDoesNotStall ==
    \A w \in DOMAIN rworkers : ~(Stalled(w) /\ requested # None)

\* C11: when the focus command returns, with success or with an error, the
\* focus future goes straight back to compare next with last; a command that
\* failed leaves no is_pending behind once the future is done, and the state
\* asked for last is sent all the same
C11_FocusFailure ==
    /\ [][\A w \in DOMAIN fworkers :
              (fworkers[w].pc = "command" /\ fworkers' # fworkers)
                  => (w \in DOMAIN fworkers' /\ fworkers'[w].pc = "top"
                      /\ UNCHANGED << last, next, is_pending >>)]_vars
    /\ <>[](hist.ffailed > 0 => FocusConverged)

\* C11 witness: a command failed, a state asked for afterwards was sent, and
\* the stream is at rest
C11_Witness ==
    /\ hist.ffailed > 0
    /\ Len(hist.fsent) > hist.ffailed
    /\ FocusConverged

\* C12: on either stream, once the commit of v has failed, a later request
\* for the same v brings a new commit of v: the size is written to requested
\* (or committed again already), and the focus future is running to send the
\* state again
C12_RetryCommitsAgain ==
    /\ hist.retry > 0 =>
           \/ requested = Some(Commits[hist.retry].size)
           \/ \E j \in (hist.retry + 1)..NCommits : Commits[j].size = Commits[hist.retry].size
    /\ (hist.fretry /\ session) => is_pending

\* the future has been woken by a notification no commit has sent, while
\* its own commit failed without the peer running it, and a request waits
WokenByStray ==
    \E w \in DOMAIN rworkers :
        /\ rworkers[w].pc = "top" /\ rworkers[w].n > 0
        /\ Commits[rworkers[w].n].status = "err" /\ ~Commits[rworkers[w].n].ran
        /\ Commits[rworkers[w].n].wokeBy = Stray
        /\ requested # None

\* C13: when the acknowledgment of commit N never comes and another size is
\* requested meanwhile, any later notify_finished call wakes the suspended
\* future, and the future then takes the value in requested and commits it
C13_NoAckDeadlock ==
    /\ [][(hist'.signals > hist.signals /\ waiters # <<>>)
              => (rworkers'[Head(waiters)].pc = "top" /\ waiters' = Tail(waiters))]_vars
    /\ [][(WokenByStray /\ requested' = None /\ hist'.ncalls = hist.ncalls)
              => /\ current' = requested
                 /\ Len(hist'.commits) = NCommits + 1
                 /\ hist'.commits[NCommits + 1].size = requested[1]
                 /\ hist'.commits[NCommits + 1].status = "sent"]_vars
    /\ (WokenByStray ~> (requested = None))

\* C13 witness: commit 1 failed and was never acknowledged, another size was
\* requested, a notification of the peer's own woke the future, and the
\* future committed that size
C13_Witness ==
    /\ NCommits >= 2
    /\ Commits[1].status = "err" /\ ~Commits[1].ran
    /\ Commits[1].wokeBy = Stray
    /\ Commits[2].size # Commits[1].size
    /\ Commits[2].req = hist.ncalls

\* C14: with no session (self.nvim() is None) a try_nvim_resize call, for
\* any allocation, leaves current, requested and active as they are, spawns
\* no future and issues no commit
C14_DetachedResizeNoOp ==
    [][(~session /\ alloc' # alloc)
           => (UNCHANGED << current, requested, active, rworkers >> /\ hist' = hist)]_vars

\* C14 witness: the session has ended, and the drawing area has since been
\* given an allocation whose size no call has computed
C14_Witness ==
    /\ ~session
    /\ hist.ncalls >= 1
    /\ hist.lastCall # Some(calc_nvim_size(alloc))
    /\ current # Some(calc_nvim_size(alloc))

\* C17: as long as current has never been set, requested is empty, active
\* is false, there is no future and no commit, whatever try_nvim_resize
\* calls are made and whatever size they would compute
C17_UnseededGuard ==
    /\ [](current = None =>
              (requested = None /\ ~active /\ rworkers = <<>> /\ NCommits = 0))
    /\ [][(current = None /\ current' = None)
              => (UNCHANGED << requested, active, rworkers >> /\ hist' = hist)]_vars

\* C17 witness: set_nvim_initialized has called try_nvim_resize with a
\* session and no current, for an allocation that is not the peer's size
C17_Witness ==
    /\ session
    /\ current = None
    /\ client = "Initialized"
    /\ Some(calc_nvim_size(alloc)) # initSize

\* C15: with no session (self.nvim() is None) a focus_update call leaves
\* last, next and is_pending as they are, spawns no future and sends no
\* command
C15_DetachedFocusNoOp ==
    [][(~session /\ hist'.fcalls # hist.fcalls)
           => (UNCHANGED << last, next, is_pending, fworkers >>
               /\ hist'.fsent = hist.fsent)]_vars

\* the future waits for a notification that nothing will send: none is
\* stored, under way or registered, and the session is gone
Orphaned(w) ==
    /\ rworkers[w].pc = "waiting"
    /\ ~session
    /\ acks = <<>> /\ permit = None

\* C16: when the session ends while a future is running, the future sees
\* the failure at its next remote call and returns with active / is_pending
\* cleared: no future is left suspended with the flag set once the session
\* is gone and nothing is left to wake it
C16_TeardownEndsWorker ==
    \A w \in DOMAIN rworkers : ~(Orphaned(w) /\ active)

\* the resize future is suspended in call_atomic or in notified()
ResizeSuspended(w) == rworkers[w].pc \in {"call", "notified", "waiting"}

\* the focus future is suspended in nvim.command
FocusSuspended(w) == fworkers[w].pc = "command"

\* C18: a future suspended in its remote call or, on the size stream, in the
\* wait for the notification, does not hold the lock of its stream, so a
\* try_nvim_resize or focus_update call of the UI thread gets the lock and
\* completes for as long as the future stays suspended
C18_LockNotHeldAcrossAwait ==
    /\ \A w \in DOMAIN rworkers :
           ResizeSuspended(w) => (~rworkers[w].guard /\ ResizeLockFree)
    /\ \A w \in DOMAIN fworkers :
           FocusSuspended(w) => (~fworkers[w].guard /\ FocusLockFree)
    /\ todo.resize > 0 => ENABLED Configure
    /\ todo.focus > 0 => ENABLED FocusEvent

\* C18 witness: on each stream a call of the UI thread has completed while
\* the future was suspended in its remote call
C18_Witness ==
    /\ \E w \in DOMAIN rworkers : rworkers[w].pc = "call" /\ requested # None
    /\ \E w \in DOMAIN fworkers : fworkers[w].pc = "command" /\ next # last

\* a size neovim accepts: at least one column and three rows
InBounds(size) == size[1] >= 1 /\ size[2] >= 3

\* C19: every size calc_nvim_size computes, every size try_nvim_resize
\* writes to requested and every size sent in a commit has at least 1
\* column and 3 rows, for every allocation, those of width or height zero
\* or under one cell included
C19_DimensionBounds ==
    /\ \A a \in EdgeAllocs \cup Allocs : InBounds(calc_nvim_size(a))
    /\ requested # None => InBounds(requested[1])
    /\ current # None => InBounds(current[1])
    /\ \A i \in DOMAIN Commits : InBounds(Commits[i].size)

\* C19 witness: the drawing area was allocated nothing at all, and the size
\* sent for it is 1 column by 3 rows
C19_Witness ==
    /\ alloc = <<0, 0>>
    /\ NCommits >= 1
    /\ Commits[NCommits].size = <<1, 3>>
    /\ Commits[NCommits].req = hist.ncalls

ResizeStream == << current, requested, active, rworkers, permit, waiters >>
FocusStream == << last, next, is_pending, fworkers >>

\* C20: no step of the size stream (try_nvim_resize, the resize future,
\* grid_resize, notify_finished) changes FocusState or the focus future, and
\* no step of the focus stream changes ResizeRequests, the resize future or
\* the notification; a focus_update call that changes next with the session
\* there has a focus future running afterwards, whatever the resize future
\* is doing, and that future can always take its step
C20_StreamsIndependent ==
    /\ [][ResizeStream' = ResizeStream \/ FocusStream' = FocusStream]_vars
    /\ [][(hist'.fcalls # hist.fcalls \/ hist'.fsent # hist.fsent)
              => (ResizeStream' = ResizeStream /\ hist'.commits = hist.commits)]_vars
    /\ [][(hist'.ncalls # hist.ncalls \/ hist'.commits # hist.commits)
              => (FocusStream' = FocusStream /\ hist'.fsent = hist.fsent)]_vars
    /\ [][(session /\ next' # next) => (is_pending' /\ fworkers' # <<>>)]_vars
    /\ [](fworkers # <<>> => ENABLED (FocusWorkerTake \/ FocusWorkerReturn))

\* C20 witness: the resize future waits for an acknowledgment that does not
\* come, and the focus future is about to send the state asked for since
C20_Witness ==
    /\ \E w \in DOMAIN rworkers : Stalled(w)
    /\ \E w \in DOMAIN fworkers : fworkers[w].pc = "top"
    /\ next # last /\ is_pending

\* the size the peer was initialized with, which the first grid_resize
\* stores in current
Seed == initSize

\* commit i has been acknowledged: its own notification has ended the wait
Acknowledged(i) == Commits[i].wokeBy = i

\* C21 as stated: after the seeding current is the seed or a size whose
\* commit has been acknowledged, never one merely taken or in flight
C21_Original ==
    current # None =>
        \/ current = Seed
        \/ \E i \in DOMAIN Commits : Commits[i].size = current[1] /\ Acknowledged(i)

\* C21 (amended): after the seeding current is changed by the future alone,
\* in the step that takes the size out of requested and before its commit
\* is sent, let alone acknowledged; an acknowledgment changes nothing of it
C21_CurrentSetOnTake ==
    /\ [][current' # current =>
              \/ current = None /\ current' = Seed /\ hist'.commits = hist.commits
              \/ /\ Len(hist'.commits) = NCommits + 1
                 /\ hist'.commits[NCommits + 1].status = "sent"
                 /\ requested = Some(hist'.commits[NCommits + 1].size)
                 /\ current' = requested]_vars
    /\ [][Len(hist'.commits) = NCommits + 1 => current' = requested]_vars
    /\ [][hist'.signals # hist.signals => current' = current]_vars

\* C21 witness: current is a size whose commit is in flight, neither the
\* seed nor a size acknowledged before
C21_Witness ==
    /\ NCommits >= 1
    /\ Commits[NCommits].status = "sent"
    /\ current = Some(Commits[NCommits].size)
    /\ current # Seed
    /\ \A i \in DOMAIN Commits : Commits[i].size = current[1] => ~Acknowledged(i)

\* C22: once seeded, current is the size the future has taken last, written
\* in the step that took it from requested and whether or not the peer has
\* received it, or the seed if the future has taken none
C22_CurrentIsLastSubmitted ==
    current # None =>
        current = IF NCommits = 0 THEN Seed ELSE Some(Commits[NCommits].size)

\* C22 witness: current is the size of the second commit, which the peer
\* has not received: its call_atomic failed
C22_Witness ==
    /\ NCommits = 2
    /\ current = Some(Commits[2].size)
    /\ Commits[2].status = "err" /\ ~Commits[2].ran
    /\ remote.size = Some(Commits[1].size)
    /\ current # remote.size

\* C23: a grid_resize event that finds current empty sets it to the size the
\* peer was initialized with, the size computed when init_nvim started it,
\* and that step issues no commit and spawns no future; once current is set
\* no grid_resize event changes it: only a take by the future does
C23_Seeding ==
    /\ [](current = None /\ session /\ remote.attached
              => ENABLED (GridResize /\ current' = Seed /\ current' # None))
    /\ [][(current = None /\ current' # None)
              => /\ current' = Seed
                 /\ UNCHANGED << requested, active, rworkers >>
                 /\ hist' = hist]_vars
    /\ [][(current # None /\ hist'.commits = hist.commits)
              => UNCHANGED << current >>]_vars

\* C23 witness: current is the seed and nothing was requested, spawned or
\* committed, though the allocation of the drawing area asks for another size
C23_Witness ==
    /\ current # None /\ current = Seed
    /\ NCommits = 0 /\ hist.ncalls = 0
    /\ requested = None /\ ~active /\ rworkers = <<>>
    /\ session /\ remote.attached
    /\ Some(calc_nvim_size(alloc)) # current

\* C24: on each stream the flag is true exactly while a future of the stream
\* exists, and a flag that is true has a future that will come to run and
\* clear it: not one suspended for a notification nothing will send
C24_FlagIffWorker ==
    /\ active <=> rworkers # <<>>
    /\ is_pending <=> fworkers # <<>>
    /\ active => \E w \in DOMAIN rworkers : ~Stalled(w)

\* a resize future returns in this step
ResizeExit == \E w \in DOMAIN rworkers : w \notin DOMAIN rworkers'

\* C25: whenever requested is non-empty active is true and a resize future
\* exists, and a future returns only in a step that finds requested empty
\* and leaves it so: no future returns while a size is waiting
C25_NoLostWakeupSize ==
    /\ [](requested # None => (active /\ rworkers # <<>>))
    /\ [][ResizeExit => (requested = None /\ requested' = None /\ ~active')]_vars

\* C25 witness: a size was requested while the future was busy with a
\* commit, and the future is back at the top of its loop with it waiting
C25_Witness ==
    \E w \in DOMAIN rworkers :
        /\ rworkers[w].pc = "top" /\ rworkers[w].n >= 1
        /\ requested # None
        /\ hist.reqId > Commits[rworkers[w].n].req

\* C26: whenever is_pending is false next equals last, so no focus state is
\* left unsent without a focus future to send it, whatever focus_update
\* calls were made and whether or not a session was there for them
C26_NoLostWakeupFocus == ~is_pending => next = last

\* a try_nvim_resize call has computed, in this step, the size in current
CallForCurrent == hist'.ncalls # hist.ncalls /\ hist'.lastCall = current

\* C27: a try_nvim_resize that computes the size in current leaves requested
\* empty, leaves current and active as they are, spawns no future and issues
\* no commit; a future that then comes to the top of its loop finds
\* requested empty and returns, and the cancelled request is never committed
C27_RequestForCurrentCancels ==
    /\ [][CallForCurrent
              => /\ requested' = None
                 /\ UNCHANGED << current, active, rworkers >>
                 /\ hist'.commits = hist.commits]_vars
    /\ [][\A w \in DOMAIN rworkers :
              (rworkers[w].pc = "top" /\ requested = None /\ rworkers' # rworkers)
                  => (w \notin DOMAIN rworkers' /\ ~active'
                      /\ hist'.commits = hist.commits)]_vars
    /\ [](\A i \in DOMAIN Commits : Commits[i].req \notin hist.dropped)

\* C27 witness: a request made while the future waited for an acknowledgment
\* was cancelled by the next call, which computed the size in current, and
\* the future has returned without a commit for it
C27_Witness ==
    /\ NCommits >= 1
    /\ hist.ncalls >= 3
    /\ (hist.ncalls - 1) \in hist.dropped
    /\ Commits[NCommits].req < hist.ncalls - 1
    /\ hist.lastCall = current
    /\ requested = None /\ ~active /\ rworkers = <<>>

\* the future w is suspended in notified() with no permit stored
Awaiting(w) ==
    \/ rworkers[w].pc = "waiting"
    \/ rworkers[w].pc = "notified" /\ permit = None

\* C28: nothing but a notify_finished call ends the wait after a commit: as
\* long as none is made the future stays suspended and active stays true,
\* try_nvim_resize calls change requested alone, and no commit is issued
C28_NoTimeout ==
    /\ [][\A w \in DOMAIN rworkers :
              (Awaiting(w) /\ hist'.signals = hist.signals)
                  => /\ w \in DOMAIN rworkers'
                     /\ rworkers'[w].pc \in {"notified", "waiting"}
                     /\ rworkers'[w].n = rworkers[w].n
                     /\ active'
                     /\ current' = current
                     /\ hist'.commits = hist.commits]_vars
    /\ [](\A w \in DOMAIN rworkers :
              Awaiting(w) => (active /\ NCommits = rworkers[w].n))

\* C28 witness: no notification will come for the commit the future waits
\* on, two try_nvim_resize calls have been made since, and no commit
C28_Witness ==
    \E w \in DOMAIN rworkers :
        /\ Stalled(w)
        /\ NCommits = rworkers[w].n
        /\ hist.ncalls >= Commits[rworkers[w].n].req + 2
        /\ requested # None /\ active

\* the number of focus_update calls that changed next: those whose state is
\* not the state of the call before, or not true for the first
FocusChanges ==
    Cardinality({ i \in DOMAIN hist.fcalls :
                    hist.fcalls[i] # (IF i = 1 THEN TRUE ELSE hist.fcalls[i - 1]) })

\* C29: on each stream an iteration of the future that does not return
\* issues exactly one commit, no other step issues any, and the commits
\* issued so far are never more than the calls that changed requested / next
C29_NoRedundantCalls ==
    /\ [](NCommits <= hist.writes)
    /\ [](Len(hist.fsent) <= FocusChanges)
    /\ [][\A w \in DOMAIN rworkers :
              (rworkers[w].pc = "top" /\ w \in DOMAIN rworkers' /\ rworkers' # rworkers)
                  => Len(hist'.commits) = NCommits + 1]_vars
    /\ [][hist'.commits # hist.commits /\ Len(hist'.commits) # NCommits
              => /\ Len(hist'.commits) = NCommits + 1
                 /\ \E w \in DOMAIN rworkers :
                        rworkers[w].pc = "top" /\ rworkers'[w].pc = "call"]_vars
    /\ [][\A w \in DOMAIN fworkers :
              (fworkers[w].pc = "top" /\ w \in DOMAIN fworkers' /\ fworkers' # fworkers)
                  => Len(hist'.fsent) = Len(hist.fsent) + 1]_vars
    /\ [][hist'.fsent # hist.fsent
              => /\ Len(hist'.fsent) = Len(hist.fsent) + 1
                 /\ \E w \in DOMAIN fworkers :
                        fworkers[w].pc = "top" /\ fworkers'[w].pc = "command"]_vars

\* C29 witness: every call changed the value asked for and each change was
\* committed, two on each stream
C29_Witness ==
    /\ hist.writes = 2 /\ NCommits = 2
    /\ FocusChanges = 2 /\ Len(hist.fsent) = 2

\* C30: a non-empty requested differs from current, so every commit carries
\* a size other than that of the commit before it, and the first commit a
\* size other than the seed: no size is committed twice in a row
C30_ConsecutiveCommitsDiffer ==
    /\ requested # None => requested # current
    /\ \A i \in DOMAIN Commits :
           Commits[i].size # (IF i = 1 THEN Seed[1] ELSE Commits[i - 1].size)

\* C30 witness: a size was committed, then another, then the first again
C30_Witness ==
    /\ NCommits = 3
    /\ Commits[3].size = Commits[1].size
    /\ Commits[2].size # Commits[1].size

\* C31: the focus commands issued to the remote alternate between FocusLost
\* and FocusGained and the first of them is FocusLost, whether or not the
\* commands succeed; as long as every focus_update so far asked for true,
\* none has been issued
C31_FocusAlternation ==
    /\ \A i \in DOMAIN hist.fsent : hist.fsent[i] = (i % 2 = 0)
    /\ (\A i \in DOMAIN hist.fcalls : hist.fcalls[i]) => hist.fsent = <<>>

\* C31 witness: focus_update(true) came first and sent nothing, then the
\* focus was lost and gained again and both commands were issued, FocusLost
\* first
C31_Witness ==
    /\ Len(hist.fcalls) = 3 /\ hist.fcalls[1]
    /\ hist.fsent = << FALSE, TRUE >>

\* C32: a try_nvim_resize that computes the size requested holds already
\* leaves current, requested, active and the resize futures as they are and
\* writes nothing to requested; and a try_nvim_resize that computes the size
\* the call before it computed leaves them as they are too, whatever the
\* resize future has done in between
C32_SameRequestIdempotent ==
    /\ [][(hist'.ncalls # hist.ncalls /\ requested = hist'.lastCall)
              => /\ UNCHANGED << current, requested, active, rworkers >>
                 /\ hist'.writes = hist.writes
                 /\ hist'.reqId = hist.reqId
                 /\ hist'.dropped = hist.dropped
                 /\ hist'.commits = hist.commits]_vars
    /\ [][(hist'.ncalls # hist.ncalls /\ hist'.lastCall = hist.lastCall)
              => UNCHANGED << current, requested, active, rworkers >>]_vars

\* C32 witness: two calls in succession computed the same size, and the
\* request the first of them made is still held in requested after the second
C32_Witness ==
    /\ hist.ncalls >= 2
    /\ hist.reqId > 0 /\ hist.reqId < hist.ncalls
    /\ requested = hist.lastCall
    /\ hist.writes = 1

\* C33: a notification that notify_finished delivers while the resize future
\* is between call_atomic and notified() is kept as the permit and the future
\* stays where it is; the permit stays until that future polls notified(),
\* and the poll takes the permit and goes on to the next iteration of the
\* loop, never onto the list of waiters
C33_EarlyAckRetained ==
    /\ [][(/\ hist'.signals # hist.signals
            /\ \E w \in DOMAIN rworkers : rworkers[w].pc = "notified")
              => /\ permit' = Some(Head(acks))
                 /\ rworkers' = rworkers]_vars
    /\ [][(permit # None /\ permit' = None)
              => \E w \in DOMAIN rworkers :
                     /\ rworkers[w].pc = "notified"
                     /\ rworkers' = [rworkers EXCEPT ![w].pc = "top"]
                     /\ waiters' = waiters]_vars
    /\ [](\A w \in DOMAIN rworkers :
              (rworkers[w].pc = "notified" /\ permit # None)
                  => /\ ENABLED (Notified(w) /\ rworkers'[w].pc = "top")
                     /\ ~ENABLED (Notified(w) /\ rworkers'[w].pc = "waiting"))

\* C33 witness: the hook of the commit has fired and its notification is
\* stored as the permit, while the future that sent the commit has not yet
\* polled notified()
C33_Witness ==
    /\ permit # None
    /\ \E w \in DOMAIN rworkers :
           /\ rworkers[w].pc = "notified"
           /\ permit = Some(rworkers[w].n)
           /\ hist.commits[rworkers[w].n].status = "ok"

\* C34: init_nvim spawns the initialization thread at most once: a thread is
\* spawned only by a step that finds the client uninitialized and leaves it
\* in progress, the client never becomes uninitialized again, and an
\* init_nvim that finds it in any other state spawns nothing
C34_InitAtMostOnce ==
    /\ [](initThreads <= 1)
    /\ [](client # "Uninitialized"
              => ~ENABLED (init_nvim /\ initThreads' # initThreads))
    /\ [][initThreads' # initThreads
              => /\ client = "Uninitialized" /\ client' = "InitInProgress"
                 /\ initThreads' = initThreads + 1]_vars
    /\ [][client # "Uninitialized" => client' # "Uninitialized"]_vars

\* C34 witness: the session was started once and is initialized, and the
\* drawing area has since been allocated a size other than the one init_nvim
\* computed
C34_Witness ==
    /\ initThreads = 1
    /\ client = "Initialized"
    /\ Some(calc_nvim_size(alloc)) # initSize

====
